---- MODULE Spec2Model ----
(***************************************************************************)
(* Model of engines/default/chkpt_snapshot.c (arcus-memcached): the        *)
(* snapshot controller (direct / async start / stop), the scan-drain loop  *)
(* do_snapshot_action, the bounded write buffer and the two encoding       *)
(* strategies (key listing, binary log records), and the validity check of *)
(* a snapshot file.                                                        *)
(*                                                                         *)
(* Sizes are byte counts.  A buffer or a file is a sequence of segments    *)
(* [k, id, size, have]: `have` bytes (a prefix) of an encoded record of    *)
(* `size` bytes; have < size only after a short write cut a record.        *)
(***************************************************************************)
EXTENDS Integers, Sequences, FiniteSets, TLC

(* ------------------------------ bounds -------------------------------- *)
\* threads that call the control surface
NumClients == 2
\* detached snapshot threads that can be created in one behaviour
MaxWorkers == 2
\* control-surface calls made in one behaviour
MaxCalls == 3
\* item_scan_getnext calls of one run that return a count > 0
MaxScans == 2
\* items of one batch (SCAN_ITEM_ARRAY_SIZE scaled down)
MaxBatch == 2
\* capacity of the snapshot buffer in bytes (SNAPSHOT_BUFFER_SIZE scaled down)
BufferSize == 300
\* values of time(NULL) seen in one behaviour
MaxClock == 2

(* ------------------------- program constants -------------------------- *)
SNAPSHOT_BUFFER_SIZE == BufferSize
SCAN_ITEM_ARRAY_SIZE == MaxBatch
\* do_snapshot_key_dump: needsize = 24, except the key string
KeyNeedSize == 24
\* do_snapshot_key_done: needsize = 256
SummaryNeedSize == 256
\* characters of the summary format string outside its three conversions
SummaryFixedLen == 48
\* sizeof(LogHdr) == sizeof(SnapshotDoneLog): a record header, and the
\* terminal record, which has no body
LogHdrSize == 8

Modes == {"KEY", "DATA", "CHKPT"}
DataModes == {"DATA", "CHKPT"}
\* CHKPT_SNAPSHOT_MODE_MAX: the first invalid mode
MODE_MAX == "MAX"
NULL == "NULL"
DefaultPath == "chkpt_snapshot"

Clients == 1..NumClients
Workers == (NumClients + 1)..(NumClients + MaxWorkers)
Threads == Clients \cup Workers
NoThread == 0

\* records of a file given to the replayer
MaxRecs == 4
\* the largest value of rel_time_t (UINT32_MAX in the program)
RelTimeMax == 11

(* ------------------------------ inputs -------------------------------- *)
\* nprefix: -1 = no prefix filter ("<all>"), 0 = the null prefix
\* ("<null>"), > 0 = a prefix of that many characters
Prefixes == {-1, 250}
FilePaths == {NULL}
Callbacks == {NULL, "cb"}
WriteKinds == {"ok", "err", "half"}
\* the sticky expiration time, (rel_time_t)-1: all bits set
StickyExptime == RelTimeMax

\* The items the scanner can hand out.  nbytes: value bytes of a key-value
\* item; elems: value bytes of each element of a collection item.
ItemKV == [name |-> "kv", nkey |-> 5, coll |-> FALSE, nbytes |-> 100,
           elems |-> <<>>, exptime |-> 0]
ItemColl == [name |-> "co", nkey |-> 20, coll |-> TRUE, nbytes |-> 0,
             elems |-> <<60, 60>>, exptime |-> 0]
Items == {ItemKV, ItemColl}
Batches == UNION {[1..n -> Items] : n \in 1..SCAN_ITEM_ARRAY_SIZE}

(* What the environment of a specification may do: the arguments of the    *)
(* calls, the batches of the scanner, which write of a step is short (fas: *)
(* its number, 0 for none; kinds: how it ends), whether fsync and          *)
(* pthread_create succeed, how many counts > 0 the scanner returns, what   *)
(* open returns (fds: -1, or the lowest free descriptor, which is 0 when   *)
(* descriptor 0 is closed), and what a replay meets (anyfile: whether any  *)
(* file is replayed, or only the file a data run has left).                *)
\* the controller under concurrent callers, with a short scan
CtlInputs ==
    [prefixes |-> {-1}, paths |-> FilePaths, callbacks |-> Callbacks,
     batches |-> {<<ItemKV>>}, fas |-> {0}, kinds |-> {"ok"},
     syncs |-> {TRUE}, created |-> BOOLEAN, waits |-> BOOLEAN,
     maxscans |-> 1, fds |-> {-1, 3}]
\* the runs of one caller, with every batch and every failure
RunInputs ==
    [prefixes |-> Prefixes, paths |-> FilePaths, callbacks |-> {NULL},
     batches |-> Batches, fas |-> 0..MaxBatch, kinds |-> WriteKinds,
     syncs |-> BOOLEAN, created |-> {TRUE}, waits |-> {FALSE},
     maxscans |-> MaxScans, fds |-> {-1, 0, 3},
     anyfile |-> FALSE, ropens |-> {TRUE}, inits |-> {TRUE},
     redos |-> {"ENGINE_SUCCESS"}]

(* ------------------------ sequences of segments ------------------------ *)
RECURSIVE SegBytes(_)
\* number of bytes held by a sequence of segments
SegBytes(s) == IF s = <<>> THEN 0 ELSE s[1].have + SegBytes(Tail(s))

RECURSIVE TakeBytes(_, _)
\* the first n bytes of a sequence of segments
TakeBytes(s, n) ==
    IF n <= 0 \/ s = <<>> THEN <<>>
    ELSE IF s[1].have <= n
         THEN <<s[1]>> \o TakeBytes(Tail(s), n - s[1].have)
         ELSE <<[s[1] EXCEPT !.have = n]>>

RECURSIVE Digits(_)
\* number of characters of "%u" / PRIu64 for n >= 0
Digits(n) == IF n < 10 THEN 1 ELSE 1 + Digits(n \div 10)

\* a whole encoded record of `size` bytes
Seg(k, name, j, size) ==
    [k |-> k, id |-> <<name, j>>, size |-> size, have |-> size]

(* --------------------------- record encoders --------------------------- *)
\* lrec_construct_link_item: size of the ItemLink record of an item
lrec_construct_link_item(it) == LogHdrSize + it.nkey + it.nbytes

\* lrec_construct_snapshot_elem: size of the record of element j of an item
lrec_construct_snapshot_elem(it, j) == LogHdrSize + it.elems[j]

\* lrec_construct_snapshot_done: size of the terminal record
lrec_construct_snapshot_done == LogHdrSize

(* ------------------------------ buffer --------------------------------- *)
(* The buffer functions work on a run context b: the buffer (curlen, mem), *)
(* the counter snapped, the content `file` of the open file, and the       *)
(* outcome of the system calls of the step: write number `fa` of the step  *)
(* (0: none) ends as `fk` says, the others are complete; fsync succeeds    *)
(* iff syncok.  enc, wlog, wfail and syncfail record what happened.        *)
\* the value write(fd, memory, len) returns
WriteResult(len, kind) ==
    CASE kind = "ok" -> len
      [] kind = "err" -> -1
      [] kind = "half" -> len \div 2

\* write(ss->file.fd, ssb->memory, ssb->curlen)
FdWrite(b) ==
    LET kind == IF b.fa = 1 THEN b.fk ELSE "ok"
        n == WriteResult(b.curlen, kind)
    IN  [b EXCEPT !.file = @ \o TakeBytes(b.mem, n),
                  !.nwritten = n,
                  !.fa = IF @ > 0 THEN @ - 1 ELSE 0,
                  !.wfail = @ \/ (n # b.curlen),
                  !.wlog = Append(@, [mem |-> b.mem, n |-> n])]

\* do_snapshot_buffer_check_space without the reset of curlen
CheckSpaceNoReset(b, needsize) ==
    IF b.curlen + needsize > SNAPSHOT_BUFFER_SIZE
    THEN LET w == FdWrite(b)
         IN  IF w.nwritten # b.curlen
             THEN [w EXCEPT !.ret = -1]
             ELSE [w EXCEPT !.ret = 0]
    ELSE [b EXCEPT !.ret = 0]

do_snapshot_buffer_check_space(b, needsize) ==
    IF b.curlen + needsize > SNAPSHOT_BUFFER_SIZE
    THEN LET w == FdWrite(b)
         IN  IF w.nwritten # b.curlen
             THEN [w EXCEPT !.ret = -1]
             ELSE [w EXCEPT !.curlen = 0, !.mem = <<>>, !.ret = 0]
    ELSE [b EXCEPT !.ret = 0]

\* do_snapshot_buffer_flush returning the failure of fsync
FlushChecksSync(b) ==
    LET w == IF b.curlen > 0 THEN FdWrite(b) ELSE b
    IN  IF b.curlen > 0 /\ w.nwritten # b.curlen
        THEN [w EXCEPT !.ret = -1]
        ELSE [w EXCEPT !.curlen = 0, !.mem = <<>>,
                       !.ret = IF b.syncok THEN 0 ELSE -1,
                       !.syncfail = ~b.syncok]

do_snapshot_buffer_flush(b) ==
    LET w == IF b.curlen > 0 THEN FdWrite(b) ELSE b
    IN  IF b.curlen > 0 /\ w.nwritten # b.curlen
        THEN [w EXCEPT !.ret = -1]
        ELSE [w EXCEPT !.curlen = 0, !.mem = <<>>, !.ret = 0,
                       !.syncfail = ~b.syncok]

\* lrec_write_to_buffer(log, &memory[curlen]); curlen += logsize
AppendRec(b, seg) ==
    [b EXCEPT !.mem = Append(@, seg), !.curlen = @ + seg.size,
              !.enc = Append(@, seg)]

(* ------------------------- key-listing strategy ------------------------ *)
\* the <exptime> field without the lower bound of 1
ExptimeFieldNoFloor(exptime, curtime) ==
    IF exptime = 0 THEN 0
    ELSE IF exptime = StickyExptime THEN -1
    ELSE exptime - curtime

\* the number written in the <exptime> field (ENABLE_STICKY_ITEM defined)
ExptimeField(exptime, curtime) ==
    IF exptime = 0 THEN 0
    ELSE IF exptime = StickyExptime THEN -1
    ELSE IF exptime > curtime THEN exptime - curtime ELSE 1

\* characters of the <exptime> field, " 0\n", " -1\n" or " %u\n"
ExptimeLength(exptime, curtime) ==
    IF exptime = 0 THEN 3
    ELSE IF exptime = StickyExptime THEN 4
    ELSE LET diff_time == IF exptime > curtime THEN exptime - curtime ELSE 1
         IN  2 + Digits(diff_time)

RECURSIVE do_snapshot_key_dump(_, _, _, _)
\* the loop of do_snapshot_key_dump from item i on
do_snapshot_key_dump(b, item_array, i, curtime) ==
    IF i > Len(item_array) THEN [b EXCEPT !.ret = 0]
    ELSE LET it == item_array[i]
             c == do_snapshot_buffer_check_space(b, KeyNeedSize + it.nkey)
             length == ExptimeLength(it.exptime, curtime)
         IN  IF c.ret < 0 THEN c
             ELSE do_snapshot_key_dump(
                      [AppendRec(c, Seg("KEYLINE", it.name,
                                        ExptimeField(it.exptime, curtime),
                                        length + it.nkey + 2))
                          EXCEPT !.snapped = @ + 1],
                      item_array, i + 1, curtime)

\* characters of the prefix description of the summary line
PrefixDescLen(nprefix) ==
    IF nprefix > 0 THEN nprefix ELSE IF nprefix = 0 THEN 6 ELSE 5

\* the value snprintf returns for the summary line: the length of the whole
\* line, whether or not it fitted in needsize
SummaryLength(nprefix, snapped, elapsed) ==
    SummaryFixedLen + PrefixDescLen(nprefix) + Digits(snapped) + Digits(elapsed)

\* do_snapshot_key_done up to the flush
do_snapshot_key_done(b, nprefix, elapsed) ==
    LET c == do_snapshot_buffer_check_space(b, SummaryNeedSize)
        length == SummaryLength(nprefix, b.snapped, elapsed)
    IN  IF c.ret < 0 THEN c
        ELSE AppendRec(c, Seg("SUMMARY", "", 0, length))

(* ---------------------------- data strategy ---------------------------- *)
RECURSIVE DataDumpElems(_, _, _)
\* the loop over the elements of a collection item, from element j on
DataDumpElems(b, it, j) ==
    IF j > Len(it.elems) THEN [b EXCEPT !.ret = 0]
    ELSE LET logsize == lrec_construct_snapshot_elem(it, j)
             c == do_snapshot_buffer_check_space(b, logsize)
         IN  IF c.ret < 0 THEN c
             ELSE DataDumpElems(AppendRec(c, Seg("ELEM", it.name, j, logsize)),
                                it, j + 1)

RECURSIVE do_snapshot_data_dump(_, _, _)
\* do_snapshot_data_dump that does not count the collection items
DataDumpCountsKVOnly(b, item_array, i) ==
    IF i > Len(item_array) THEN [b EXCEPT !.ret = 0]
    ELSE LET it == item_array[i]
             logsize == lrec_construct_link_item(it)
             c == do_snapshot_buffer_check_space(b, logsize)
         IN  IF c.ret < 0 THEN c
             ELSE LET l == AppendRec(c, Seg("LINK", it.name, 0, logsize))
                      e == IF it.coll THEN DataDumpElems(l, it, 1) ELSE l
                  IN  IF e.ret < 0 THEN e
                      ELSE do_snapshot_data_dump(
                               [e EXCEPT !.snapped = IF it.coll THEN @
                                                     ELSE @ + 1],
                               item_array, i + 1)

\* the loop of do_snapshot_data_dump from item i on
do_snapshot_data_dump(b, item_array, i) ==
    IF i > Len(item_array) THEN [b EXCEPT !.ret = 0]
    ELSE LET it == item_array[i]
             logsize == lrec_construct_link_item(it)
             c == do_snapshot_buffer_check_space(b, logsize)
         IN  IF c.ret < 0 THEN c
             ELSE LET l == AppendRec(c, Seg("LINK", it.name, 0, logsize))
                      e == IF it.coll THEN DataDumpElems(l, it, 1) ELSE l
                  IN  IF e.ret < 0 THEN e
                      ELSE do_snapshot_data_dump(
                               [e EXCEPT !.snapped = @ + 1], item_array, i + 1)

\* do_snapshot_data_done without the terminal record
DataDoneNoRecord(b) ==
    do_snapshot_buffer_check_space(b, lrec_construct_snapshot_done)

\* do_snapshot_data_done up to the flush
do_snapshot_data_done(b) ==
    LET logsize == lrec_construct_snapshot_done
        c == do_snapshot_buffer_check_space(b, logsize)
    IN  IF c.ret < 0 THEN c
        ELSE AppendRec(c, Seg("DONE", "", 0, logsize))

(* --------------------------- validity check ---------------------------- *)
RECURSIVE ReadBytes(_, _, _)
\* lseek to off, read n bytes: the bytes off .. off+n-1 of a file, as the
\* pieces [lo, hi) of the records they belong to
ReadBytes(f, off, n) ==
    IF n <= 0 \/ f = <<>> THEN <<>>
    ELSE IF off >= f[1].have THEN ReadBytes(Tail(f), off - f[1].have, n)
    ELSE LET hi == IF f[1].have < off + n THEN f[1].have ELSE off + n
         IN  <<[k |-> f[1].k, id |-> f[1].id, size |-> f[1].size,
                lo |-> off, hi |-> hi]>>
             \o ReadBytes(Tail(f), 0, n - (hi - off))

RECURSIVE PieceBytes(_)
PieceBytes(ps) ==
    IF ps = <<>> THEN 0 ELSE (ps[1].hi - ps[1].lo) + PieceBytes(Tail(ps))

\* lrec_check_snapshot_done: 0 iff the bytes are those of a terminal record
lrec_check_snapshot_done(log) ==
    IF log = <<[k |-> "DONE", id |-> <<"", 0>>, size |-> LogHdrSize,
                lo |-> 0, hi |-> LogHdrSize]>>
    THEN 0 ELSE -1

\* chkpt_snapshot_check_file_validity on an open file of content f
chkpt_snapshot_check_file_validity(f) ==
    LET offset == SegBytes(f) - LogHdrSize
        log == ReadBytes(f, offset, LogHdrSize)
    IN  IF offset < 0 THEN -1
        ELSE IF PieceBytes(log) # LogHdrSize THEN -1
        ELSE lrec_check_snapshot_done(log)

(* ------------------------------ replayer ------------------------------- *)
(* chkpt_snapshot_file_apply reads the records of a file one by one.  Its  *)
(* locals are the fields of r: f the content of the file, pos the record   *)
(* the descriptor stands at, fd, ret, last_coll_it (an item is named by    *)
(* the position of its ItemLink record), held the item references taken    *)
(* and not released, log the redo calls made, done whether the terminal    *)
(* record was consumed.                                                    *)
\* MAX_LOG_RECORD_SIZE: the size of the record buffer buf
MAX_LOG_RECORD_SIZE == 256
\* last_coll_it = NULL
NoItem == 0
RedoResults == {"ENGINE_SUCCESS", "ENGINE_FAILED", "ENGINE_ENOMEM"}

NoApply == [pc |-> "none", f |-> <<>>, pos |-> 1, fd |-> -1, ret |-> 0,
            last_coll_it |-> NoItem, held |-> {}, log |-> <<>>,
            done |-> FALSE, closes |-> 0]

\* the records a file may hold: the records the data strategy writes, a
\* record of another log type, a record longer than the record buffer
RecLinkKV == Seg("LINK", ItemKV.name, 0, lrec_construct_link_item(ItemKV))
RecLinkColl == Seg("LINK", ItemColl.name, 0, lrec_construct_link_item(ItemColl))
RecElem == Seg("ELEM", ItemColl.name, 1, lrec_construct_snapshot_elem(ItemColl, 1))
RecDone == Seg("DONE", "", 0, lrec_construct_snapshot_done)
RecOther == Seg("OTHER", "", 0, LogHdrSize + 4)
RecBig == Seg("LINK", ItemKV.name, 0, MAX_LOG_RECORD_SIZE + 1)
Recs == {RecLinkKV, RecLinkColl, RecElem, RecDone, RecOther, RecBig}

\* a record cut by the end of the file: inside its header, after its header
Cuts(rec) == {[rec EXCEPT !.have = h] :
                 h \in {x \in {LogHdrSize \div 2, LogHdrSize, rec.size} :
                           x <= rec.size}}

\* files of at most MaxRecs records, the last one whole or cut
ReplayFiles ==
    {<<>>} \cup
    UNION {{Append(w, c) : w \in [1..n -> Recs], c \in UNION {Cuts(x) : x \in Recs}}
              : n \in 0..(MaxRecs - 1)}

\* read(fd, loghdr, sizeof(LogHdr)), the test of body_length and
\* read(fd, logrec->body, body_length): "ok" or the fatal condition met
ReadRecord(r) ==
    IF r.pos > Len(r.f) THEN "header"
    ELSE LET rec == r.f[r.pos]
             body_length == rec.size - LogHdrSize
             max_body_length == MAX_LOG_RECORD_SIZE - LogHdrSize
         IN  IF rec.have < LogHdrSize THEN "header"
             ELSE IF body_length > 0 /\ max_body_length < body_length
                  THEN "toobig"
             ELSE IF body_length > 0 /\ rec.have # rec.size THEN "body"
             ELSE "ok"

\* lrec_get_item_if_collection_link: the item of an ItemLink record when
\* it is a collection item (found: whether the item is in the cache)
lrec_get_item_if_collection_link(rec, at, found) ==
    IF found /\ \E it \in Items : it.name = rec.id[1] /\ it.coll
    THEN at ELSE NoItem

\* item_release(last_coll_it)
item_release(r) == [r EXCEPT !.held = @ \ {r.last_coll_it}]

\* an element record taken whether or not a collection item is retained
ElemAppliesAlways(rec, last) == rec.k = "ELEM"

\* loghdr->logtype == LOG_SNAPSHOT_ELEM && last_coll_it
ElemApplies(rec, last) == rec.k = "ELEM" /\ last # NoItem

\* a replayer for which every redo failure is fatal
RedoFatalAnyFailure(err) == err # "ENGINE_SUCCESS"

\* if (err == ENGINE_ENOMEM) { ret = -1; break; } (lines 769-772, 785-789)
RedoFatal(err) == err = "ENGINE_ENOMEM"

\* a replayer that keeps the first collection item it retained
LastCollKeepsFirst(prev, got) == IF prev # NoItem THEN prev ELSE got

\* last_coll_it after an ItemLink record (line 778): the item of the record
\* when it is a collection item, no item otherwise
LastCollAfterLink(prev, got) == got

\* the branch on logtype of the record read (lines 764-798): redo is the
\* result of lrec_redo_from_record
chkpt_apply_record(r, redo, found) ==
    LET at == r.pos
        rec == r.f[at]
        n == [r EXCEPT !.pos = @ + 1]
    IN  IF rec.k = "LINK"
        THEN LET l == [n EXCEPT !.log = Append(@, [op |-> "link", at |-> at,
                                                   to |-> NoItem,
                                                   err |-> redo])]
                 got == lrec_get_item_if_collection_link(rec, at, found)
             IN  IF RedoFatal(redo)
                 THEN [l EXCEPT !.ret = -1, !.pc = "close"]
                 ELSE [(IF r.last_coll_it # NoItem THEN item_release(l)
                        ELSE l)
                          EXCEPT !.held = IF got # NoItem THEN @ \cup {got}
                                          ELSE @,
                                 !.last_coll_it =
                                     LastCollAfterLink(r.last_coll_it, got)]
        ELSE IF ElemApplies(rec, r.last_coll_it)
        THEN LET l == [n EXCEPT !.log = Append(@, [op |-> "elem", at |-> at,
                                                   to |-> r.last_coll_it,
                                                   err |-> redo])]
             IN  IF RedoFatal(redo)
                 THEN [l EXCEPT !.ret = -1, !.pc = "close"]
                 ELSE l
        ELSE IF rec.k = "DONE"
        THEN [(IF r.last_coll_it # NoItem THEN item_release(n) ELSE n)
                 EXCEPT !.done = TRUE, !.pc = "close"]
        ELSE n

\* one pass of while (engine->initialized) { ... }
chkpt_apply_pass(r, initialized, redo, found) ==
    IF ~initialized THEN [r EXCEPT !.pc = "close"]
    ELSE IF ReadRecord(r) # "ok" THEN [r EXCEPT !.ret = -1, !.pc = "close"]
    ELSE chkpt_apply_record(r, redo, found)

(* ------------------------------- state --------------------------------- *)
VARIABLES
    ss,       \* snapshot_anch: the fields of snapshot_st
    fs,       \* content of the file at each path
    lock,     \* the thread holding snapshot_anch.lock, or NoThread
    pc,       \* where each thread is
    ret,      \* the last call of each client: the entry point, the value
              \* returned, the warning or info logged
    calls,    \* control-surface calls each client has made
    loc,      \* the locals of do_snapshot_action of each thread, until
              \* its caller has used the value it returned
    clock,    \* time(NULL)
    gh,       \* history of the current run: records encoded, writes made
    cbreg,    \* the callback each snapshot thread was started with
    cbcalls,  \* callbacks each snapshot thread has invoked
    rp        \* chkpt_snapshot_file_apply: the file it reads and its locals

vars == <<ss, fs, lock, pc, ret, calls, loc, clock, gh, cbreg, cbcalls, rp>>

Paths == {DefaultPath} \cup (FilePaths \ {NULL})

InAction == {"act_open", "loop_top", "getnext", "done_flush", "scan_close",
             "act_done"}

NoRun == [enc |-> <<>>, wlog |-> <<>>, wfail |-> FALSE, syncfail |-> FALSE,
          openok |-> FALSE]

\* The locals of do_snapshot_action: snapshot_done, erst_array # NULL, the
\* two hook pointers; and what the thread has done in the run: exit, how it
\* left the loop; doneret, what the done function returned; nscan, batches obtained; nrel, batches released; after,
\* scanner calls made with reqstop set; hooks, the hook calls made by the
\* scanner; ninit, nfree, nclose, ndone, how often the element-result
\* holders were set up and freed, the file closed, the cleanup run.
NoLocals == [sdone |-> FALSE, nscan |-> 0, erst |-> FALSE, exit |-> "none",
             cb_scan_open |-> NULL, cb_scan_close |-> NULL, hooks |-> <<>>,
             doneret |-> "none", nrel |-> 0, after |-> 0, ninit |-> 0,
             nfree |-> 0, nclose |-> 0, ndone |-> 0]

Ret(op, code, log) == [op |-> op, code |-> code, log |-> log]

RECURSIVE SumCalls(_, _)
SumCalls(f, n) == IF n = 0 THEN 0 ELSE f[n] + SumCalls(f, n - 1)

\* whether one more call fits in the behaviour: the calls are made before
\* the recovery that replays a file
CallBudget == rp.pc = "none" /\ SumCalls(calls, NumClients) < MaxCalls

\* a call that takes the lock is made only while the lock exists
MayCall == CallBudget /\ ss.lockinit

\* chkpt_snapshot_init
Init ==
    /\ ss = [running |-> FALSE, success |-> FALSE, reqstop |-> FALSE,
             mode |-> MODE_MAX, snapped |-> 0, started |-> 0, stopped |-> 0,
             nprefix |-> -1, path |-> "", fd |-> -1, size |-> 0,
             curlen |-> 0, mem |-> <<>>, cb |-> NULL,
             initialized |-> TRUE, memory |-> TRUE, lockinit |-> TRUE]
    /\ fs = [p \in Paths |-> <<>>]
    /\ lock = NoThread
    /\ pc = [t \in Threads |-> IF t \in Clients THEN "idle" ELSE "none"]
    /\ ret = [c \in Clients |-> Ret("none", "none", "")]
    /\ calls = [c \in Clients |-> 0]
    /\ loc = [t \in Threads |-> NoLocals]
    /\ clock = 1
    /\ gh = NoRun
    /\ cbreg = [w \in Workers |-> NULL]
    /\ cbcalls = [w \in Workers |-> 0]
    /\ rp = NoApply

(* ----------------------------- controller ------------------------------ *)
do_snapshot_argcheck(mode) ==
    IF mode \notin Modes THEN "ENGINE_EBADVALUE" ELSE "ENGINE_SUCCESS"

do_snapshot_prepare(s, mode, nprefix, filepath, callback, now) ==
    [s EXCEPT !.success = FALSE, !.reqstop = FALSE, !.mode = mode,
              !.snapped = 0, !.started = now, !.stopped = 0,
              !.nprefix = nprefix, !.cb = callback,
              !.path = IF filepath # NULL THEN filepath ELSE DefaultPath,
              !.fd = -1, !.size = 0, !.curlen = 0, !.mem = <<>>]

\* do_snapshot_direct that does not test running
DirectNoRunningCheck(s, mode, nprefix, filepath, now) ==
    [ss |-> [do_snapshot_prepare(s, mode, nprefix, filepath, NULL, now)
                EXCEPT !.running = TRUE],
     ret |-> "run", log |-> ""]

\* do_snapshot_direct up to the unlock: ret "run" when the action follows
do_snapshot_direct(s, mode, nprefix, filepath, now) ==
    IF s.running
    THEN [ss |-> s, ret |-> "ENGINE_FAILED", log |-> "Already started"]
    ELSE [ss |-> [do_snapshot_prepare(s, mode, nprefix, filepath, NULL, now)
                     EXCEPT !.running = TRUE],
          ret |-> "run", log |-> ""]

\* do_snapshot_start that does not test running
StartNoRunningCheck(s, mode, nprefix, filepath, callback, now, created) ==
    LET p == do_snapshot_prepare(s, mode, nprefix, filepath, callback, now)
    IN  IF created
        THEN [ss |-> [p EXCEPT !.running = TRUE], ret |-> "ENGINE_SUCCESS",
              log |-> ""]
        ELSE [ss |-> [p EXCEPT !.running = FALSE], ret |-> "ENGINE_FAILED",
              log |-> "Failed to create the snapshot thread"]

\* do_snapshot_start; created: whether pthread_create succeeds
do_snapshot_start(s, mode, nprefix, filepath, callback, now, created) ==
    IF s.running
    THEN [ss |-> s, ret |-> "ENGINE_FAILED", log |-> "Already started"]
    ELSE LET p == do_snapshot_prepare(s, mode, nprefix, filepath, callback,
                                      now)
         IN  IF created
             THEN [ss |-> [p EXCEPT !.running = TRUE],
                   ret |-> "ENGINE_SUCCESS", log |-> ""]
             ELSE [ss |-> [p EXCEPT !.running = FALSE],
                   ret |-> "ENGINE_FAILED",
                   log |-> "Failed to create the snapshot thread"]

\* the snapshot thread slot the next pthread_create uses
NextWorker == CHOOSE w \in Workers :
                  pc[w] = "none" /\ \A v \in Workers : v < w => pc[v] # "none"

\* chkpt_snapshot_direct / chkpt_snapshot_start with an invalid mode
ArgcheckFail(c) ==
    /\ pc[c] = "idle" /\ MayCall
    /\ do_snapshot_argcheck(MODE_MAX) # "ENGINE_SUCCESS"
    /\ \E op \in {"direct", "start"} :
         ret' = [ret EXCEPT ![c] = Ret(op, do_snapshot_argcheck(MODE_MAX),
                                       "Given mode is invalid")]
    /\ calls' = [calls EXCEPT ![c] = @ + 1]
    /\ UNCHANGED <<ss, fs, lock, pc, loc, clock, gh, cbreg, cbcalls>>
    /\ UNCHANGED rp

\* chkpt_snapshot_direct up to the unlock in do_snapshot_direct
DirectEnter(c, U) ==
    /\ pc[c] = "idle" /\ MayCall /\ lock = NoThread
    /\ \E mode \in Modes, nprefix \in U.prefixes, filepath \in U.paths :
         LET r == do_snapshot_direct(ss, mode, nprefix, filepath, clock)
         IN  /\ do_snapshot_argcheck(mode) = "ENGINE_SUCCESS"
             /\ ss' = r.ss
             /\ IF r.ret = "run"
                THEN /\ pc' = [pc EXCEPT ![c] = "act_open"]
                     /\ loc' = [loc EXCEPT ![c] = NoLocals]
                     /\ gh' = NoRun
                     /\ ret' = [ret EXCEPT ![c] = Ret("direct", "none", "")]
                ELSE /\ ret' = [ret EXCEPT ![c] = Ret("direct", r.ret, r.log)]
                     /\ UNCHANGED <<pc, loc, gh>>
    /\ calls' = [calls EXCEPT ![c] = @ + 1]
    /\ UNCHANGED <<fs, lock, clock, cbreg, cbcalls>>
    /\ UNCHANGED rp

\* do_snapshot_direct from the lock after the action on
DirectExit(c) ==
    /\ pc[c] = "direct_exit" /\ lock = NoThread
    /\ ss' = [ss EXCEPT !.running = FALSE]
    /\ ret' = [ret EXCEPT ![c] =
                 IF loc[c].sdone
                 THEN Ret("direct", "ENGINE_SUCCESS", "Done the snapshot action")
                 ELSE Ret("direct", "ENGINE_FAILED",
                          "Failed to do snapshot action")]
    /\ pc' = [pc EXCEPT ![c] = "idle"]
    /\ loc' = [loc EXCEPT ![c] = NoLocals]
    /\ UNCHANGED <<fs, lock, calls, clock, gh, cbreg, cbcalls>>
    /\ UNCHANGED rp

\* chkpt_snapshot_start
StartCall(c, U) ==
    /\ pc[c] = "idle" /\ MayCall /\ lock = NoThread
    /\ \E mode \in Modes, nprefix \in U.prefixes, filepath \in U.paths,
          callback \in U.callbacks, created \in U.created :
         LET r == do_snapshot_start(ss, mode, nprefix, filepath, callback,
                                    clock, created)
         IN  /\ do_snapshot_argcheck(mode) = "ENGINE_SUCCESS"
             /\ r.ret = "ENGINE_SUCCESS" => \E w \in Workers : pc[w] = "none"
             /\ ss' = r.ss
             /\ ret' = [ret EXCEPT ![c] = Ret("start", r.ret, r.log)]
             /\ IF r.ret = "ENGINE_SUCCESS"
                THEN /\ pc' = [pc EXCEPT ![NextWorker] = "act_open"]
                     /\ loc' = [loc EXCEPT ![NextWorker] = NoLocals]
                     /\ cbreg' = [cbreg EXCEPT ![NextWorker] = callback]
                     /\ gh' = NoRun
                ELSE /\ gh' = IF ss.running THEN gh ELSE NoRun
                     /\ UNCHANGED <<pc, loc, cbreg>>
    /\ calls' = [calls EXCEPT ![c] = @ + 1]
    /\ UNCHANGED <<fs, lock, clock, cbcalls>>
    /\ UNCHANGED rp

\* a pass of the loop of do_snapshot_stop that does not request the stop
StopPassNoRequest(s) ==
    [ss |-> s, again |-> s.running]

\* one pass of the loop of do_snapshot_stop: while (ss->running)
\* { ss->reqstop = true; ... }; again: whether the body was entered
do_snapshot_stop_pass(s) ==
    IF s.running THEN [ss |-> [s EXCEPT !.reqstop = TRUE], again |-> TRUE]
    ELSE [ss |-> s, again |-> FALSE]

\* chkpt_snapshot_stop / do_snapshot_stop(wait_stop): from the lock to the
\* first unlock (the sleep of a waiting call, the return of the others)
StopEnter(c, U) ==
    /\ pc[c] = "idle" /\ MayCall /\ lock = NoThread
    /\ \E wait_stop \in U.waits :
         IF ~ss.running \/ ss.mode = "CHKPT"
         THEN /\ ret' = [ret EXCEPT ![c] = Ret("stop", "returned", "")]
              /\ UNCHANGED <<ss, pc>>
         ELSE /\ ss' = do_snapshot_stop_pass(ss).ss
              /\ IF wait_stop
                 THEN /\ pc' = [pc EXCEPT ![c] = "stop_sleep"]
                      /\ ret' = [ret EXCEPT ![c] = Ret("stop", "none", "")]
                 ELSE /\ ret' = [ret EXCEPT ![c] =
                                   Ret("stop", "returned",
                                       "Snapshot thread stopped")]
                      /\ UNCHANGED pc
    /\ calls' = [calls EXCEPT ![c] = @ + 1]
    /\ UNCHANGED <<fs, lock, loc, clock, gh, cbreg, cbcalls>>
    /\ UNCHANGED rp

\* do_snapshot_stop after usleep: lock, test running, request again and
\* unlock, or leave the loop with the lock held
StopPoll(c) ==
    /\ pc[c] = "stop_sleep" /\ lock = NoThread
    /\ LET r == do_snapshot_stop_pass(ss)
       IN  /\ ss' = r.ss
           /\ IF r.again
              THEN UNCHANGED <<pc, lock>>
              ELSE /\ pc' = [pc EXCEPT ![c] = "stop_ret"]
                   /\ lock' = c
    /\ UNCHANGED <<fs, ret, calls, loc, clock, gh, cbreg, cbcalls>>
    /\ UNCHANGED rp

\* do_snapshot_stop returns; chkpt_snapshot_stop unlocks
StopReturn(c) ==
    /\ pc[c] = "stop_ret" /\ lock = c
    /\ lock' = NoThread
    /\ pc' = [pc EXCEPT ![c] = "idle"]
    /\ ret' = [ret EXCEPT ![c] = Ret("stop", "returned",
                                     "Snapshot thread stopped")]
    /\ UNCHANGED <<ss, fs, calls, loc, clock, gh, cbreg, cbcalls>>
    /\ UNCHANGED rp

(* ------------------------------ shutdown ------------------------------ *)
\* chkpt_snapshot_final up to the first unlock of chkpt_snapshot_stop: the
\* return of a call on a module that is not initialized; the return of
\* do_snapshot_stop when no run is active or the run is a CHKPT run; the
\* stop request and the sleep otherwise
FinalEnter(c) ==
    /\ pc[c] = "idle" /\ CallBudget
    /\ IF ~ss.initialized
       THEN /\ ret' = [ret EXCEPT ![c] = Ret("final", "returned", "")]
            /\ UNCHANGED <<ss, pc>>
       ELSE /\ lock = NoThread
            /\ ret' = [ret EXCEPT ![c] = Ret("final", "none", "")]
            /\ IF ~ss.running \/ ss.mode = "CHKPT"
               THEN /\ pc' = [pc EXCEPT ![c] = "final_free"]
                    /\ UNCHANGED ss
               ELSE /\ ss' = do_snapshot_stop_pass(ss).ss
                    /\ pc' = [pc EXCEPT ![c] = "final_sleep"]
    /\ calls' = [calls EXCEPT ![c] = @ + 1]
    /\ UNCHANGED <<fs, lock, loc, clock, gh, cbreg, cbcalls>>
    /\ UNCHANGED rp

\* do_snapshot_stop(ss, true) called by chkpt_snapshot_final, after usleep:
\* lock, test running, request again and unlock, or leave the loop, return
\* and unlock
FinalPoll(c) ==
    /\ pc[c] = "final_sleep" /\ lock = NoThread
    /\ LET r == do_snapshot_stop_pass(ss)
       IN  /\ ss' = r.ss
           /\ pc' = [pc EXCEPT ![c] = IF r.again THEN @ ELSE "final_free"]
    /\ UNCHANGED <<fs, lock, ret, calls, loc, clock, gh, cbreg, cbcalls>>
    /\ UNCHANGED rp

\* chkpt_snapshot_final after chkpt_snapshot_stop: close the file, free the
\* buffer, destroy the lock, initialized = false
FinalFree(c) ==
    /\ pc[c] = "final_free"
    /\ ss' = [ss EXCEPT !.fd = -1, !.memory = FALSE, !.lockinit = FALSE,
                        !.initialized = FALSE]
    /\ ret' = [ret EXCEPT ![c] = Ret("final", "returned",
                                     "SNAPSHOT module destroyed")]
    /\ pc' = [pc EXCEPT ![c] = "idle"]
    /\ UNCHANGED <<fs, lock, calls, loc, clock, gh, cbreg, cbcalls>>
    /\ UNCHANGED rp

\* a thread inside a run touches the buffer that was freed or the lock that
\* was destroyed: the run may go on as if nothing had happened (the steps of
\* the run) or the thread may fault
UseAfterFree(t) ==
    /\ pc[t] \in InAction \cup {"direct_exit", "thread_exit"}
    /\ ~ss.memory
    /\ pc' = [pc EXCEPT ![t] = "fault"]
    /\ UNCHANGED <<ss, fs, lock, ret, calls, loc, clock, gh, cbreg, cbcalls>>
    /\ UNCHANGED rp

(* --------------------------- scan-drain loop --------------------------- *)
\* the run context of a step of the thread inside do_snapshot_action
Ctx(fa, fk, syncok) ==
    [curlen |-> ss.curlen, mem |-> ss.mem, snapped |-> ss.snapped,
     file |-> fs[ss.path], enc |-> gh.enc, wlog |-> gh.wlog,
     wfail |-> gh.wfail, syncfail |-> gh.syncfail,
     fa |-> fa, fk |-> fk, syncok |-> syncok, ret |-> 0, nwritten |-> 0]

\* the state after a step that ended in run context b
Commit(b) ==
    /\ ss' = [ss EXCEPT !.curlen = b.curlen, !.mem = b.mem,
                        !.snapped = b.snapped]
    /\ fs' = [fs EXCEPT ![ss.path] = b.file]
    /\ gh' = [gh EXCEPT !.enc = b.enc, !.wlog = b.wlog, !.wfail = b.wfail,
                        !.syncfail = b.syncfail]

\* snapshot_func[mode].dump
SnapshotDump(b, mode, item_array, curtime) ==
    IF mode = "KEY" THEN do_snapshot_key_dump(b, item_array, 1, curtime)
    ELSE do_snapshot_data_dump(b, item_array, 1)

\* snapshot_func[mode].done, up to the flush
SnapshotDone(b, mode, nprefix, elapsed) ==
    IF mode = "KEY" THEN do_snapshot_key_done(b, nprefix, elapsed)
    ELSE do_snapshot_data_done(b)

\* item_scan_open(&scan, prefix, nprefix, cb_scan_open): calls the hook
\* when there is one
item_scan_open(l, cb_scan_open) ==
    [l EXCEPT !.hooks = IF cb_scan_open # NULL
                        THEN Append(@, <<cb_scan_open, "">>) ELSE @]

\* item_scan_close(&scan, cb_scan_close, success): calls the hook when
\* there is one, with success
item_scan_close(l, cb_scan_close, success) ==
    [l EXCEPT !.hooks = IF cb_scan_close # NULL
                        THEN Append(@, <<cb_scan_close,
                                         IF success THEN "true" ELSE "false">>)
                        ELSE @]

\* the test at the top of the loop that never leaves the loop
LoopTopNeverBreaks(reqstop) == "getnext"

\* lines 375-378: if (ss->reqstop) break; where the thread goes next
LoopTopNext(reqstop) == IF reqstop THEN "scan_close" ELSE "getnext"

\* snapshot_done set whatever the done function returned
SnapshotDoneAlways(doneret) == TRUE

\* lines 387-392: snapshot_done = true unless the done function failed
snapshot_done(doneret) == doneret >= 0

\* the release of a batch only after a dump that succeeded
ScanReleaseOnSuccess(l, dumpret) ==
    [l EXCEPT !.nrel = IF dumpret < 0 THEN @ ELSE @ + 1,
              !.exit = IF dumpret < 0 THEN "dump" ELSE @]

\* the hooks set for every run of a data mode
ActSetupHooksData(l, mode) ==
    [l EXCEPT !.erst = (mode \in DataModes),
              !.ninit = IF mode \in DataModes THEN @ + 1 ELSE @,
              !.cb_scan_open = IF mode \in DataModes
                               THEN "cmdlog_set_chkpt_scan" ELSE NULL,
              !.cb_scan_close = IF mode \in DataModes
                                THEN "cmdlog_reset_chkpt_scan" ELSE NULL]

\* lines 362-372: the element-result holders of the data modes, the hooks
\* of a CHKPT run
ActSetup(l, mode) ==
    [l EXCEPT !.erst = (mode \in DataModes),
              !.ninit = IF mode \in DataModes THEN @ + 1 ELSE @,
              !.cb_scan_open = IF mode = "CHKPT" THEN "cmdlog_set_chkpt_scan"
                               ELSE NULL,
              !.cb_scan_close = IF mode = "CHKPT"
                                THEN "cmdlog_reset_chkpt_scan" ELSE NULL]

\* a call of item_scan_getnext
item_scan_getnext(l, reqstop) ==
    [l EXCEPT !.after = IF reqstop THEN @ + 1 ELSE @]

\* lines 395-403 after the dump: item_scan_release, then break if ret < 0
ScanRelease(l, dumpret) ==
    [l EXCEPT !.nrel = @ + 1, !.exit = IF dumpret < 0 THEN "dump" ELSE @]

\* lines 410-421: free the element-result holders, size and close the file
ActCleanup(l, fd) ==
    [l EXCEPT !.erst = FALSE,
              !.nfree = IF l.erst THEN @ + 1 ELSE @,
              !.nclose = IF fd > 0 THEN @ + 1 ELSE @,
              !.ndone = @ + 1]

\* do_snapshot_action: open(path, O_WRONLY | O_CREAT | O_TRUNC), the
\* element-result holders, item_scan_open
ActOpen(t, U) ==
    /\ pc[t] = "act_open"
    /\ \E fd \in U.fds :
         IF fd < 0
         THEN /\ ss' = [ss EXCEPT !.fd = fd]
              /\ loc' = [loc EXCEPT ![t].exit = "open"]
              /\ pc' = [pc EXCEPT ![t] = "act_done"]
              /\ UNCHANGED <<fs, gh>>
         ELSE /\ ss' = [ss EXCEPT !.fd = fd]
              /\ fs' = [fs EXCEPT ![ss.path] = <<>>]
              /\ LET l == ActSetup(loc[t], ss.mode)
                 IN  loc' = [loc EXCEPT
                               ![t] = item_scan_open(l, l.cb_scan_open)]
              /\ gh' = [gh EXCEPT !.openok = TRUE]
              /\ pc' = [pc EXCEPT ![t] = "loop_top"]
    /\ UNCHANGED <<lock, ret, calls, clock, cbreg, cbcalls>>
    /\ UNCHANGED rp

\* while (1) { if (ss->reqstop) break;
LoopTop(t) ==
    /\ pc[t] = "loop_top"
    /\ pc' = [pc EXCEPT ![t] = LoopTopNext(ss.reqstop)]
    /\ loc' = [loc EXCEPT ![t].exit = IF ss.reqstop THEN "reqstop" ELSE @]
    /\ UNCHANGED <<ss, fs, lock, ret, calls, clock, gh, cbreg, cbcalls>>
    /\ UNCHANGED rp

\* item_scan_getnext returns -2: out of memory
GetNextOOM(t) ==
    /\ pc[t] = "getnext"
    /\ pc' = [pc EXCEPT ![t] = "scan_close"]
    /\ loc' = [loc EXCEPT ![t] = [item_scan_getnext(@, ss.reqstop)
                                     EXCEPT !.exit = "oom"]]
    /\ UNCHANGED <<ss, fs, lock, ret, calls, clock, gh, cbreg, cbcalls>>
    /\ UNCHANGED rp

\* item_scan_getnext returns 0: no valid item found, the scan continues
GetNextZero(t) ==
    /\ pc[t] = "getnext"
    /\ pc' = [pc EXCEPT ![t] = "loop_top"]
    /\ loc' = [loc EXCEPT ![t] = item_scan_getnext(@, ss.reqstop)]
    /\ UNCHANGED <<ss, fs, lock, ret, calls, clock, gh, cbreg, cbcalls>>
    /\ UNCHANGED rp

\* item_scan_getnext returns item_count > 0: dump, release, break on failure
GetNextBatch(t, U) ==
    /\ pc[t] = "getnext" /\ loc[t].nscan < U.maxscans
    /\ \E item_array \in U.batches, fa \in U.fas, fk \in U.kinds :
         LET b == SnapshotDump(Ctx(fa, fk, TRUE), ss.mode, item_array, clock)
             l == [item_scan_getnext(loc[t], ss.reqstop)
                      EXCEPT !.nscan = @ + 1]
         IN  /\ Commit(b)
             /\ loc' = [loc EXCEPT ![t] = ScanRelease(l, b.ret)]
             /\ pc' = [pc EXCEPT ![t] = IF b.ret < 0 THEN "scan_close"
                                        ELSE "loop_top"]
    /\ UNCHANGED <<lock, ret, calls, clock, cbreg, cbcalls>>
    /\ UNCHANGED rp

\* item_scan_getnext returns -1, the end of the scan: the done function up
\* to its flush
GetNextEnd(t, U) ==
    /\ pc[t] = "getnext"
    /\ \E fk \in U.kinds :
         LET b == SnapshotDone(Ctx(1, fk, TRUE), ss.mode, ss.nprefix,
                               clock - ss.started)
         IN  /\ Commit(b)
             /\ loc' = [loc EXCEPT ![t] =
                          [item_scan_getnext(@, ss.reqstop)
                              EXCEPT !.exit = "end",
                                     !.doneret = IF b.ret < 0 THEN "failed"
                                                 ELSE @]]
             /\ pc' = [pc EXCEPT ![t] = IF b.ret < 0 THEN "scan_close"
                                        ELSE "done_flush"]
    /\ UNCHANGED <<lock, ret, calls, clock, cbreg, cbcalls>>
    /\ UNCHANGED rp

\* the flush that ends the done function; snapshot_done = true if it succeeds
DoneFlush(t, U) ==
    /\ pc[t] = "done_flush"
    /\ \E fk \in U.kinds, syncok \in U.syncs :
         LET b == do_snapshot_buffer_flush(Ctx(1, fk, syncok))
         IN  /\ Commit(b)
             /\ loc' = [loc EXCEPT ![t].sdone = snapshot_done(b.ret),
                                   ![t].doneret = IF b.ret < 0 THEN "failed"
                                                  ELSE "ok"]
    /\ pc' = [pc EXCEPT ![t] = "scan_close"]
    /\ UNCHANGED <<lock, ret, calls, clock, cbreg, cbcalls>>
    /\ UNCHANGED rp

\* item_scan_close(&scan, cb_scan_close, snapshot_done)
ScanClose(t) ==
    /\ pc[t] = "scan_close"
    /\ loc' = [loc EXCEPT ![t] = item_scan_close(@, @.cb_scan_close, @.sdone)]
    /\ pc' = [pc EXCEPT ![t] = "act_done"]
    /\ UNCHANGED <<ss, fs, lock, ret, calls, clock, gh, cbreg, cbcalls>>
    /\ UNCHANGED rp

\* done: free the element-result holders, size and close the file, record
\* success and the stop time
ActDone(t) ==
    /\ pc[t] = "act_done"
    /\ ss' = [ss EXCEPT !.size = IF ss.fd > 0 THEN SegBytes(fs[ss.path])
                                 ELSE @,
                        !.fd = IF ss.fd > 0 THEN -1 ELSE @,
                        !.success = loc[t].sdone,
                        !.stopped = clock]
    /\ loc' = [loc EXCEPT ![t] = ActCleanup(@, ss.fd)]
    /\ pc' = [pc EXCEPT ![t] = IF t \in Clients THEN "direct_exit"
                               ELSE "thread_exit"]
    /\ UNCHANGED <<fs, lock, ret, calls, clock, gh, cbreg, cbcalls>>
    /\ UNCHANGED rp

\* a snapshot thread that returns without resetting running
ThreadFinishKeepsRunning(w) ==
    /\ pc[w] = "thread_exit" /\ lock = NoThread
    /\ pc' = [pc EXCEPT ![w] = "thread_cb"]
    /\ loc' = [loc EXCEPT ![w] = NoLocals]
    /\ UNCHANGED <<ss, fs, lock, ret, calls, clock, gh, cbreg, cbcalls>>
    /\ UNCHANGED rp

\* do_snapshot_thread_main: lock, running = false, unlock
ThreadFinish(w) ==
    /\ pc[w] = "thread_exit" /\ lock = NoThread
    /\ ss' = [ss EXCEPT !.running = FALSE]
    /\ pc' = [pc EXCEPT ![w] = "thread_cb"]
    /\ loc' = [loc EXCEPT ![w] = NoLocals]
    /\ UNCHANGED <<fs, lock, ret, calls, clock, gh, cbreg, cbcalls>>
    /\ UNCHANGED rp

\* do_snapshot_thread_main: if (ss->cb_snapshot_done) call it; return
ThreadCallback(w) ==
    /\ pc[w] = "thread_cb"
    /\ cbcalls' = [cbcalls EXCEPT ![w] = IF ss.cb # NULL THEN @ + 1 ELSE @]
    /\ pc' = [pc EXCEPT ![w] = "exited"]
    /\ UNCHANGED <<ss, fs, lock, ret, calls, loc, clock, gh, cbreg>>
    /\ UNCHANGED rp

\* time passes
Tick ==
    /\ clock < MaxClock /\ rp.pc = "none"
    /\ clock' = clock + 1
    /\ UNCHANGED <<ss, fs, lock, pc, ret, calls, loc, gh, cbreg, cbcalls>>
    /\ UNCHANGED rp

(* ---------------------------- replay steps ----------------------------- *)
\* chkpt_snapshot_file_apply: open(filepath, O_RDONLY)
ApplyOpen(U) ==
    /\ rp.pc = "none" /\ ~ss.running
    /\ U.anyfile \/ (ss.stopped # 0 /\ ss.mode \in DataModes)
    /\ \E filepath \in Paths, opened \in U.ropens :
         rp' = IF opened
               THEN [NoApply EXCEPT !.pc = "loop", !.f = fs[filepath],
                                    !.fd = 4]
               ELSE [NoApply EXCEPT !.pc = "returned", !.f = fs[filepath],
                                    !.ret = -1]
    /\ UNCHANGED <<ss, fs, lock, pc, ret, calls, loc, clock, gh, cbreg,
                   cbcalls>>

\* one pass of the loop: the test of engine->initialized, the reads, the
\* record applied
ApplyStep(U) ==
    /\ rp.pc = "loop"
    /\ \E initialized \in U.inits, redo \in U.redos, found \in BOOLEAN :
         /\ redo = "ENGINE_SUCCESS" => found
         /\ rp' = chkpt_apply_pass(rp, initialized, redo, found)
    /\ UNCHANGED <<ss, fs, lock, pc, ret, calls, loc, clock, gh, cbreg,
                   cbcalls>>

\* close(fd); return ret
ApplyClose ==
    /\ rp.pc = "close"
    /\ rp' = [rp EXCEPT !.fd = -1, !.closes = @ + 1, !.pc = "returned"]
    /\ UNCHANGED <<ss, fs, lock, pc, ret, calls, loc, clock, gh, cbreg,
                   cbcalls>>

\* the steps of a thread inside do_snapshot_action
Action(t, U) ==
    \/ ActOpen(t, U) \/ LoopTop(t) \/ GetNextOOM(t) \/ GetNextZero(t)
    \/ GetNextBatch(t, U) \/ GetNextEnd(t, U) \/ DoneFlush(t, U)
    \/ ScanClose(t) \/ ActDone(t)

\* Concurrent callers of the control surface and the snapshot threads they
\* start.
Next ==
    \/ \E c \in Clients :
         \/ ArgcheckFail(c) \/ DirectEnter(c, CtlInputs) \/ DirectExit(c)
         \/ StartCall(c, CtlInputs) \/ StopEnter(c, CtlInputs)
         \/ StopPoll(c) \/ StopReturn(c)
    \/ \E t \in Threads : Action(t, CtlInputs)
    \/ \E w \in Workers : ThreadFinish(w) \/ ThreadCallback(w)

Spec == Init /\ [][Next]_vars

\* One caller making direct runs with every batch and every failure of
\* open, write and fsync, and a second caller that requests a stop; then,
\* at recovery, the replay of the file a data run has left.
NextRun ==
    \/ DirectEnter(1, RunInputs) \/ DirectExit(1)
    \/ StopEnter(2, RunInputs)
    \/ Action(1, RunInputs)
    \/ Tick
    \/ ApplyOpen(RunInputs) \/ ApplyStep(RunInputs) \/ ApplyClose

SpecRun == Init /\ [][NextRun]_vars

\* One caller that starts runs, direct and async, and a second caller that
\* requests stops.
NextStop ==
    \/ DirectEnter(1, CtlInputs) \/ DirectExit(1) \/ StartCall(1, CtlInputs)
    \/ StopEnter(2, CtlInputs) \/ StopPoll(2) \/ StopReturn(2)
    \/ \E t \in Threads : Action(t, CtlInputs)
    \/ \E w \in Workers : ThreadFinish(w) \/ ThreadCallback(w)

\* The scheduler runs every thread that can take a step, and a thread that
\* waits for the lock gets it once it stays free; nothing is assumed of the
\* scanner but that each call returns.
FairSpec ==
    /\ Init /\ [][NextStop]_vars
    /\ \A t \in Threads : WF_vars(Action(t, CtlInputs))
    /\ WF_vars(StopPoll(2)) /\ WF_vars(StopReturn(2)) /\ WF_vars(DirectExit(1))
    /\ \A w \in Workers : WF_vars(ThreadFinish(w)) /\ WF_vars(ThreadCallback(w))

\* One caller that starts runs, direct and async, and a second caller that
\* shuts the module down, once or twice.
NextFinal ==
    \/ DirectEnter(1, CtlInputs) \/ DirectExit(1) \/ StartCall(1, CtlInputs)
    \/ FinalEnter(2) \/ FinalPoll(2) \/ FinalFree(2)
    \/ \E t \in Threads : Action(t, CtlInputs)
    \/ \E w \in Workers : ThreadFinish(w) \/ ThreadCallback(w)
    \/ \E t \in Threads : UseAfterFree(t)

SpecFinal == Init /\ [][NextFinal]_vars

\* The scanner's part: a scan does not return 0 for ever, so a run that
\* keeps calling item_scan_getnext is told the end of the scan or the lack
\* of memory at some call.
FairScanSpec ==
    /\ FairSpec
    /\ \A t \in Threads :
          SF_vars(GetNextEnd(t, CtlInputs) \/ GetNextOOM(t))

\* an item that expires at e, its key naming e
KeyItem(e) == [ItemKV EXCEPT !.name = ToString(e), !.exptime = e]

\* the key listing of one item, for every expiration time of the item
KeyInputs ==
    [prefixes |-> {-1}, paths |-> FilePaths, callbacks |-> {NULL},
     batches |-> {<<KeyItem(e)>> : e \in 0..RelTimeMax},
     fas |-> {0}, kinds |-> {"ok"}, syncs |-> {TRUE}, created |-> {TRUE},
     waits |-> {FALSE}, maxscans |-> 1, fds |-> {3}]

\* Direct runs at every current time.
InitKey ==
    /\ ss = [running |-> FALSE, success |-> FALSE, reqstop |-> FALSE,
             mode |-> MODE_MAX, snapped |-> 0, started |-> 0, stopped |-> 0,
             nprefix |-> -1, path |-> "", fd |-> -1, size |-> 0,
             curlen |-> 0, mem |-> <<>>, cb |-> NULL,
             initialized |-> TRUE, memory |-> TRUE, lockinit |-> TRUE]
    /\ fs = [p \in Paths |-> <<>>]
    /\ lock = NoThread
    /\ pc = [t \in Threads |-> IF t \in Clients THEN "idle" ELSE "none"]
    /\ ret = [c \in Clients |-> Ret("none", "none", "")]
    /\ calls = [c \in Clients |-> 0]
    /\ loc = [t \in Threads |-> NoLocals]
    /\ clock \in 0..RelTimeMax
    /\ gh = NoRun
    /\ cbreg = [w \in Workers |-> NULL]
    /\ cbcalls = [w \in Workers |-> 0]
    /\ rp = NoApply

NextKey ==
    \/ DirectEnter(1, KeyInputs) \/ DirectExit(1) \/ Action(1, KeyInputs)

SpecKey == InitKey /\ [][NextKey]_vars

\* what the replayer meets: every result of open, of the redo of a record
\* and of the test of engine->initialized
ApplyInputs == [anyfile |-> TRUE, ropens |-> BOOLEAN, inits |-> BOOLEAN,
                redos |-> RedoResults]

\* The replayer on every file of at most MaxRecs records.
InitApply ==
    /\ ss = [running |-> FALSE, success |-> FALSE, reqstop |-> FALSE,
             mode |-> MODE_MAX, snapped |-> 0, started |-> 0, stopped |-> 0,
             nprefix |-> -1, path |-> "", fd |-> -1, size |-> 0,
             curlen |-> 0, mem |-> <<>>, cb |-> NULL,
             initialized |-> TRUE, memory |-> TRUE, lockinit |-> TRUE]
    /\ fs \in [Paths -> ReplayFiles]
    /\ lock = NoThread
    /\ pc = [t \in Threads |-> IF t \in Clients THEN "idle" ELSE "none"]
    /\ ret = [c \in Clients |-> Ret("none", "none", "")]
    /\ calls = [c \in Clients |-> 0]
    /\ loc = [t \in Threads |-> NoLocals]
    /\ clock = 1
    /\ gh = NoRun
    /\ cbreg = [w \in Workers |-> NULL]
    /\ cbcalls = [w \in Workers |-> 0]
    /\ rp = NoApply

NextApply == ApplyOpen(ApplyInputs) \/ ApplyStep(ApplyInputs) \/ ApplyClose

SpecApply == InitApply /\ [][NextApply]_vars

(* ------------------------------- claims -------------------------------- *)
\* the file of the current or last run
RunFile == IF ss.path \in Paths THEN fs[ss.path] ELSE <<>>

\* the last record of a file is a whole terminal record
EndsWithTerminal(f) ==
    /\ Len(f) > 0
    /\ f[Len(f)].k = "DONE"
    /\ f[Len(f)].have = f[Len(f)].size

RECURSIVE Flat(_)
\* the bytes of the writes of a run, in the order of the writes
Flat(w) == IF w = <<>> THEN <<>> ELSE w[1].mem \o Flat(Tail(w))

\* C1: in every interleaving of direct runs, async starts, stop requests and
\* the end of the snapshot threads, at most one thread is inside
\* do_snapshot_action.
C1_OneRunAtATime ==
    Cardinality({t \in Threads : pc[t] \in InAction}) <= 1

\* a snapshot thread is inside the loop and a start made meanwhile was refused
C1_Witness ==
    \E w \in Workers, c \in Clients :
        /\ pc[w] = "getnext"
        /\ ret[c] = Ret("start", "ENGINE_FAILED", "Already started")

\* C2: a direct run or a start with a valid mode, called while running is
\* true, returns ENGINE_FAILED in the same step (the caller is idle again, it
\* waits for nothing) and changes no field of the snapshot state, no file and
\* no thread.
C2_RejectedWhileRunning ==
    [][\A c \in Clients :
          (/\ calls'[c] = calls[c] + 1
           /\ ss.running
           /\ ret'[c].op \in {"direct", "start"}
           /\ ret'[c].code # "ENGINE_EBADVALUE")
          => (/\ ret'[c].code = "ENGINE_FAILED"
              /\ ret'[c].log = "Already started"
              /\ pc' = pc
              /\ ss' = ss
              /\ fs' = fs)]_vars

\* a direct run was refused while a run that has already snapped an item is
\* active
C2_Witness ==
    \E c \in Clients :
        /\ ret[c] = Ret("direct", "ENGINE_FAILED", "Already started")
        /\ ss.running /\ ss.snapped > 0

\* C3: a DATA or CHKPT run that ended with success = true leaves a file of
\* whole records with exactly one terminal record, the last one; and the
\* validity check accepts a file iff its last bytes are a whole terminal
\* record.
C3_CompleteFileEndsWithTerminal ==
    /\ (ss.success /\ ss.mode \in DataModes) =>
          /\ EndsWithTerminal(RunFile)
          /\ Cardinality({i \in DOMAIN RunFile : RunFile[i].k = "DONE"}) = 1
          /\ \A i \in DOMAIN RunFile : RunFile[i].have = RunFile[i].size
    /\ \A p \in Paths :
          (chkpt_snapshot_check_file_validity(fs[p]) = 0)
              <=> EndsWithTerminal(fs[p])

\* a successful DATA or CHKPT run whose file holds item records before the
\* terminal record
C3_Witness ==
    /\ ss.success /\ ss.mode \in DataModes /\ ~ss.running
    /\ Len(RunFile) > 2

\* C4: a short write or a failed fsync ends the run with success = false.
C4_WriteOrSyncFailureFailsRun ==
    (ss.stopped # 0 /\ (gh.wfail \/ gh.syncfail)) => ~ss.success

\* a run whose fsync failed has ended with success = true
C4_Witness ==
    /\ ss.stopped # 0 /\ ~ss.running
    /\ gh.syncfail /\ ~gh.wfail /\ ss.success /\ ss.mode \in DataModes

\* C5 as claimed: after a DATA or CHKPT run that ended with success = false
\* the validity check rejects the file at the output path.
C5_FailedRunFileRejected ==
    (ss.stopped # 0 /\ ~ss.success /\ ss.mode \in DataModes) =>
        chkpt_snapshot_check_file_validity(RunFile) # 0

\* C5 amended: the same for the runs that opened their file.
C5_FailedRunOpenedFileRejected ==
    (ss.stopped # 0 /\ ~ss.success /\ ss.mode \in DataModes /\ gh.openok) =>
        /\ chkpt_snapshot_check_file_validity(RunFile) # 0
        /\ ~EndsWithTerminal(RunFile)

\* a failed DATA or CHKPT run has left a partial file
C5_Witness ==
    /\ ss.stopped # 0 /\ ~ss.success /\ ss.mode \in DataModes /\ gh.openok
    /\ Len(RunFile) > 0

\* C6: reqstop is never true while a CHKPT run is running.
C6_CheckpointNeverStopped ==
    ~(ss.running /\ ss.mode = "CHKPT" /\ ss.reqstop)

\* a stop that waits sets reqstop on a CHKPT run and the run is cancelled
C6_Witness ==
    /\ ss.mode = "CHKPT" /\ ss.reqstop /\ ss.stopped # 0 /\ ~ss.success
    /\ \E c \in Clients : pc[c] = "stop_ret"

C8_CallbackExactlyOnce ==
    \A w \in Workers :
        (pc[w] = "exited" /\ cbreg[w] # NULL) => cbcalls[w] = 1

\* a snapshot thread started with a callback has returned without a call
\* of it, the next run having replaced the callback
C8_Witness ==
    \E w \in Workers :
        /\ pc[w] = "exited" /\ cbreg[w] # NULL /\ cbcalls[w] = 0
        /\ ss.running /\ ss.cb = NULL

\* C9: in a DATA or CHKPT run without a short write, the file is the
\* concatenation of the writes, the writes followed by the buffer are the
\* records in the order they were encoded, no write is empty or larger than
\* the buffer, and every write but a final flush was forced by the record
\* that follows it.
C9_BufferKeepsRecordOrder ==
    (ss.mode \in DataModes /\ gh.openok /\ ~gh.wfail) =>
        /\ RunFile = Flat(gh.wlog)
        /\ Flat(gh.wlog) \o ss.mem = gh.enc
        /\ \A i \in DOMAIN gh.wlog :
              /\ gh.wlog[i].mem # <<>>
              /\ SegBytes(gh.wlog[i].mem) <= SNAPSHOT_BUFFER_SIZE
              /\ LET rest == IF i < Len(gh.wlog) THEN gh.wlog[i + 1].mem
                             ELSE ss.mem
                 IN  rest # <<>> =>
                        SegBytes(gh.wlog[i].mem) + rest[1].size
                            > SNAPSHOT_BUFFER_SIZE
        /\ ss.success => RunFile = gh.enc

\* a successful run whose buffer overflowed: a forced write, then the flush
C9_Witness ==
    /\ ss.mode \in DataModes /\ ss.success /\ ~gh.wfail
    /\ Len(gh.wlog) >= 2

\* C10: the fill length of the buffer never exceeds its capacity.
C10_CurlenWithinMaxlen ==
    ss.curlen <= SNAPSHOT_BUFFER_SIZE

\* the summary line of a KEY run has taken curlen past the capacity, the
\* buffer having had room for the 256 bytes asked for
C10_Witness ==
    /\ ss.mode = "KEY" /\ ss.curlen > SNAPSHOT_BUFFER_SIZE
    /\ Len(ss.mem) > 1
    /\ ss.mem[Len(ss.mem)].k = "SUMMARY"
    /\ ss.mem[Len(ss.mem)].size > SummaryNeedSize
    /\ ss.curlen - ss.mem[Len(ss.mem)].size + SummaryNeedSize
           <= SNAPSHOT_BUFFER_SIZE

\* the redo calls of a replay that linked an item
LinkCalls(log) == {i \in DOMAIN log : log[i].op = "link"}

\* the element records that follow, in file f, the ItemLink record at i
\* before the next ItemLink or terminal record
ElemsAfter(f, i) ==
    {j \in DOMAIN f :
        /\ j > i /\ f[j].k = "ELEM"
        /\ \A m \in (i + 1)..(j - 1) : f[m].k \notin {"LINK", "DONE"}}

\* every redo call of a replay succeeded
AllRedone(log) == \A i \in DOMAIN log : log[i].err = "ENGINE_SUCCESS"

\* C11: the replay of the file of a DATA or CHKPT run that ended with
\* success = true, all redo calls succeeding, returns 0 and links as many
\* items as the run counted in snapped; the file holds that many ItemLink
\* records.
C11_ReplayLinksSnappedItems ==
    (rp.pc = "returned" /\ ss.success /\ ss.mode \in DataModes) =>
        /\ rp.f = RunFile
        /\ rp.ret = 0 /\ rp.done /\ AllRedone(rp.log)
        /\ Cardinality(LinkCalls(rp.log)) = ss.snapped
        /\ Cardinality({i \in DOMAIN RunFile : RunFile[i].k = "LINK"})
              = ss.snapped

\* the file of a successful run of three items, a collection among them,
\* has been replayed
C11_Witness ==
    /\ rp.pc = "returned" /\ ss.success /\ ss.mode \in DataModes
    /\ ss.snapped = 3
    /\ \E i \in DOMAIN rp.log : rp.log[i].op = "elem"

\* C12: in a replay that reached the terminal record with every redo call
\* succeeding, the elements attached to a collection item are exactly the
\* element records that follow its ItemLink record before the next
\* ItemLink or terminal record, each once and in file order.
C12_ElementsAttachedToTheirItem ==
    (rp.pc = "returned" /\ rp.done /\ AllRedone(rp.log)) =>
        /\ \A i \in DOMAIN rp.f :
              (i < rp.pos /\ rp.f[i].k = "LINK" /\ rp.f[i].id[1] = ItemColl.name)
              => {rp.log[n].at : n \in {m \in DOMAIN rp.log :
                                          /\ rp.log[m].op = "elem"
                                          /\ rp.log[m].to = i}}
                    = {j \in ElemsAfter(rp.f, i) : j < rp.pos}
        /\ \A m, n \in DOMAIN rp.log : m < n => rp.log[m].at < rp.log[n].at

\* the second of two collection items got the element that follows it
C12_Witness ==
    /\ rp.pc = "returned" /\ rp.done /\ AllRedone(rp.log)
    /\ rp.f[1] = RecLinkColl /\ rp.f[2] = RecLinkColl
    /\ Len(rp.log) = 3
    /\ Cardinality({n \in DOMAIN rp.log : rp.log[n].op = "elem"
                                          /\ rp.log[n].to = 2}) = 1

\* C13: an element is attached only to the item of the most recent ItemLink
\* record before it, and only when that record is of a collection item; an
\* element record met with no collection item retained is passed over.
C13_NoElementWithoutCollection ==
    \A n \in DOMAIN rp.log :
        rp.log[n].op = "elem" =>
            LET to == rp.log[n].to
                at == rp.log[n].at
            IN  /\ to # NoItem /\ to < at
                /\ rp.f[to].k = "LINK" /\ rp.f[to].id[1] = ItemColl.name
                /\ \A m \in (to + 1)..(at - 1) : rp.f[m].k # "LINK"

\* an element record at the start of the file and one after the ItemLink of
\* a key-value item were passed over, and the replay went on to the end
C13_Witness ==
    /\ rp.pc = "returned" /\ rp.done /\ Len(rp.f) = 4
    /\ rp.f[1].k = "ELEM" /\ rp.f[2] = RecLinkKV /\ rp.f[3].k = "ELEM"
    /\ \A n \in DOMAIN rp.log : rp.log[n].op = "link"
    /\ Len(rp.log) = 1 /\ rp.log[1].err = "ENGINE_SUCCESS"

\* C14: the <exptime> field of a key line is 0 for an item that never
\* expires, -1 for a sticky item, 1 for an item that expires now or has
\* expired, and exptime - now otherwise; it is positive for every item with
\* a nonzero, non-sticky expiration time.
C14_ExptimeField ==
    \A n \in DOMAIN gh.enc, e \in 0..RelTimeMax :
        (gh.enc[n].k = "KEYLINE" /\ gh.enc[n].id[1] = ToString(e)) =>
            LET field == gh.enc[n].id[2]
            IN  /\ e = 0 => field = 0
                /\ e = StickyExptime => field = -1
                /\ (e # 0 /\ e # StickyExptime) =>
                      /\ field > 0
                      /\ e <= clock => field = 1
                      /\ e > clock => field = e - clock

\* the key line of an item that expired before now has been encoded
C14_Witness ==
    \E n \in DOMAIN gh.enc, e \in 1..(RelTimeMax - 1) :
        /\ gh.enc[n].k = "KEYLINE" /\ gh.enc[n].id = <<ToString(e), 1>>
        /\ e < clock

\* C15: the replay returns 0 if and only if it consumed the terminal record;
\* a descriptor that was opened is closed once before the return.
C15_ReplaySucceedsIffDone ==
    rp.pc = "returned" =>
        /\ (rp.ret = 0) <=> rp.done
        /\ rp.fd = -1

\* a replay has returned 0 with records left unread and no terminal record
\* consumed, the engine having ceased to be initialized
C15_Witness ==
    /\ rp.pc = "returned" /\ rp.ret = 0 /\ ~rp.done /\ rp.closes = 1
    /\ rp.pos <= Len(rp.f)

\* the thread has left do_snapshot_action and not yet reset running
ActionReturned(t) == pc[t] \in {"direct_exit", "thread_exit"}

\* C16: a run ends with success = true if and only if the scanner reported
\* the end of the scan and the done function then succeeded; every other way
\* out (open failure, scanner out of memory, stop request, dump failure,
\* done failure) ends it with success = false, and the value returned by
\* the direct call agrees with the success flag.
C16_SuccessIffScanEndedAndDone ==
    /\ \A t \in Threads :
          ActionReturned(t) =>
              /\ loc[t].exit \in {"open", "oom", "reqstop", "dump", "end"}
              /\ ss.success <=> (loc[t].exit = "end" /\ loc[t].doneret = "ok")
    /\ (pc[1] = "idle" /\ ret[1].log = "Done the snapshot action")
          => (ret[1].code = "ENGINE_SUCCESS" /\ ss.success)
    /\ (pc[1] = "idle" /\ ret[1].log = "Failed to do snapshot action")
          => (ret[1].code = "ENGINE_FAILED" /\ ~ss.success)

\* a run has left the loop at the end of the scan with a done function whose
\* flush failed
C16_Witness ==
    /\ ActionReturned(1) /\ loc[1].exit = "end" /\ loc[1].doneret = "failed"
    /\ gh.wfail /\ ~ss.success
    /\ \E n \in DOMAIN gh.enc : gh.enc[n].k \in {"DONE", "SUMMARY"}

\* C17: on every way out of do_snapshot_action the cleanup has run once
\* before running is reset: the element-result holders that were initialised
\* are freed once, an opened file is closed once, success and the stop time
\* are recorded; whenever running is false the descriptor is -1.
C17_CleanupOnceAndFileClosed ==
    /\ ~ss.running => ss.fd = -1
    /\ \A t \in Threads :
          ActionReturned(t) =>
              /\ ss.running
              /\ loc[t].ndone = 1 /\ loc[t].nfree = loc[t].ninit
              /\ ~loc[t].erst
              /\ gh.openok => loc[t].nclose = 1
              /\ ss.fd = -1 /\ ss.success = loc[t].sdone

\* a run whose open() returned descriptor 0 has ended and left it open
C17_Witness ==
    /\ pc[1] = "idle" /\ ~ss.running /\ ss.fd = 0
    /\ ret[1].log = "Done the snapshot action" /\ ss.success

\* C18: every batch of a positive item count is released once, whether its
\* dump succeeded or failed, before the next call of the scanner and before
\* the scan is closed.
C18_EveryBatchReleasedOnce ==
    \A t \in Threads : loc[t].nrel = loc[t].nscan

\* the dump of the second batch failed and the loop was left
C18_Witness ==
    /\ pc[1] = "scan_close" /\ loc[1].exit = "dump"
    /\ loc[1].nscan = 2 /\ loc[1].nrel = 2

\* C19: the loop tests reqstop once at the top of each pass; a pass that
\* finds it set leaves the loop with no further call of the scanner and no
\* call of the done function, so the run ends with success = false and
\* without a terminal or summary record; once reqstop is set the scanner is
\* called at most once more in the run.
C19_StopLeavesLoopAtTop ==
    \A t \in Threads :
        /\ loc[t].after <= 1
        /\ loc[t].exit = "reqstop" =>
              /\ ss.reqstop
              /\ pc[t] \notin {"loop_top", "getnext", "done_flush"}
              /\ ~loc[t].sdone /\ loc[t].doneret = "none"
              /\ \A n \in DOMAIN gh.enc :
                    gh.enc[n].k \notin {"DONE", "SUMMARY"}
              /\ ActionReturned(t) => ~ss.success

\* a stop request arrived after the test at the top of a pass: one more
\* batch was obtained and dumped, then the loop was left
C19_Witness ==
    /\ ActionReturned(1) /\ loc[1].exit = "reqstop"
    /\ loc[1].after = 1 /\ loc[1].nscan = 1 /\ gh.enc # <<>>

\* the hook calls of a CHKPT run inside the loop, and after the scan is
\* closed with snapshot_done = sdone
HookOpened == <<<<"cmdlog_set_chkpt_scan", "">>>>
HookClosed(sdone) ==
    Append(HookOpened,
           <<"cmdlog_reset_chkpt_scan", IF sdone THEN "true" ELSE "false">>)

\* C20: in a CHKPT run that opened its file cmdlog_set_chkpt_scan is called
\* once before the first call of the scanner and cmdlog_reset_chkpt_scan
\* once after the loop, on every way out of the loop, with the success of
\* the run; KEY and DATA runs, and runs whose open() failed, call neither.
C20_ChkptHooksPaired ==
    \A t \in Threads :
        /\ (ss.mode = "CHKPT"
            /\ pc[t] \in {"loop_top", "getnext", "done_flush", "scan_close"})
              => loc[t].hooks = HookOpened
        /\ (ss.mode = "CHKPT" /\ gh.openok
            /\ (pc[t] = "act_done" \/ ActionReturned(t)))
              => loc[t].hooks = HookClosed(loc[t].sdone)
        /\ (ss.mode = "CHKPT" /\ gh.openok /\ ActionReturned(t))
              => loc[t].sdone = ss.success
        /\ (ss.mode # "CHKPT" \/ ~gh.openok) => loc[t].hooks = <<>>

\* a CHKPT run left the loop on a failed dump and told the close hook that
\* it had not succeeded
C20_Witness ==
    /\ ss.mode = "CHKPT" /\ ActionReturned(1) /\ loc[1].exit = "dump"
    /\ loc[1].hooks = HookClosed(FALSE)

\* the last redo call of a replay was refused for lack of memory
EndedOutOfMemory(r) ==
    r.log # <<>> /\ r.log[Len(r.log)].err = "ENGINE_ENOMEM"

\* C21: a redo call that fails for lack of memory is the last one of the
\* replay, which returns -1 without reading another record; a redo call
\* that fails otherwise does not end the replay: the replay returns -1 only
\* after an out-of-memory redo or a record that could not be read.
C21_OnlyOutOfMemoryRedoIsFatal ==
    \A n \in DOMAIN rp.log :
        /\ rp.log[n].err = "ENGINE_ENOMEM" =>
              /\ n = Len(rp.log)
              /\ rp.pc \in {"close", "returned"} /\ rp.ret = -1
              /\ rp.pos = rp.log[n].at + 1
        /\ (rp.log[n].err = "ENGINE_FAILED" /\ rp.ret = -1) =>
              EndedOutOfMemory(rp) \/ ReadRecord(rp) # "ok"
        /\ (rp.log[n].err = "ENGINE_FAILED" /\ n = Len(rp.log)
            /\ rp.pos = rp.log[n].at + 1 /\ ReadRecord(rp) = "ok")
              => (rp.pc = "loop" \/ rp.ret = 0)

\* the redo of an ItemLink record and of an element record failed, not for
\* lack of memory, and the replay went on to the terminal record and
\* returned 0
C21_Witness ==
    /\ rp.pc = "returned" /\ rp.ret = 0 /\ rp.done /\ Len(rp.log) = 3
    /\ rp.log[1].op = "link" /\ rp.log[1].err = "ENGINE_FAILED"
    /\ rp.log[2].op = "elem" /\ rp.log[2].err = "ENGINE_FAILED"
    /\ rp.log[3].err = "ENGINE_SUCCESS"

\* the ItemLink records among the records enc encoded by a run whose item
\* has all its element records encoded after it
FullyAppended(enc) ==
    {i \in DOMAIN enc :
        /\ enc[i].k = "LINK"
        /\ \E it \in Items :
              /\ it.name = enc[i].id[1]
              /\ \A j \in 1..Len(it.elems) :
                    /\ i + j <= Len(enc)
                    /\ enc[i + j].k = "ELEM" /\ enc[i + j].id = <<it.name, j>>}

\* C22: snapped never decreases within a run; it goes back to 0 only in the
\* preparation of a run that is accepted (running becomes true), never in a
\* call that is rejected; between the dump steps of a DATA or CHKPT run it
\* is the number of items whose ItemLink record and element records were
\* all appended.
C22_SnappedResetOnlyByAcceptedRun ==
    /\ []((ss.running /\ ss.mode \in DataModes)
            => ss.snapped = Cardinality(FullyAppended(gh.enc)))
    /\ [][ss'.snapped < ss.snapped
            => (~ss.running /\ ss'.running /\ ss'.snapped = 0)]_vars

\* a start whose thread could not be created has returned ENGINE_FAILED and
\* the count of the run that wrote the file at its path is gone
C22_Witness ==
    /\ \E c \in Clients : ret[c].log = "Failed to create the snapshot thread"
    /\ ~ss.running /\ ss.snapped = 0 /\ ss.stopped = 0
    /\ \E i \in DOMAIN fs[ss.path] : fs[ss.path][i].k = "LINK"

\* C23: with every thread scheduled and a scanner that ends every scan (the
\* end of the scan or out of memory), whatever the number of calls that
\* return 0, every accepted run finishes: running becomes false again and
\* the direct call returns.
C23_AcceptedRunFinishes ==
    /\ ss.running ~> ~ss.running
    /\ (pc[1] # "idle") ~> (pc[1] = "idle")

\* a snapshot thread has finished a CHKPT run, which no stop can cancel
C23_Witness ==
    /\ \E w \in Workers : pc[w] = "exited"
    /\ ~ss.running /\ ss.mode = "CHKPT" /\ ss.stopped # 0

\* C24: chkpt_snapshot_final frees the buffer and destroys the lock only
\* when no run is active, whatever the mode of the run; a call on a module
\* that is already shut down changes nothing.
C24_ShutdownReleasesWhenIdle ==
    /\ [][((ss.memory /\ ~ss'.memory) \/ (ss.lockinit /\ ~ss'.lockinit))
            => ~ss.running]_vars
    /\ [][(~ss.initialized /\ calls'[2] # calls[2])
            => UNCHANGED <<ss, fs, lock, pc>>]_vars

\* the module has been shut down under a CHKPT run whose thread is in the
\* loop
C24_Witness ==
    /\ ~ss.memory /\ ~ss.lockinit /\ ~ss.initialized
    /\ ss.running /\ ss.mode = "CHKPT"
    /\ ret[2].log = "SNAPSHOT module destroyed"
    /\ \E w \in Workers : pc[w] = "getnext"

\* C25: the replay holds at most one collection item at a time, the one
\* last_coll_it points to, and holds none when it returns, whatever the way
\* out of the loop.
C25_NoItemRetainedOnReturn ==
    /\ Cardinality(rp.held) <= 1
    /\ rp.held \subseteq {rp.last_coll_it}
    /\ rp.pc = "returned" => rp.held = {}

\* the replay of a file cut after the ItemLink record of a collection item
\* has returned -1 on the short read and still holds the item
C25_Witness ==
    /\ rp.pc = "returned" /\ rp.ret = -1 /\ ~rp.done
    /\ rp.f = <<RecLinkColl>> /\ rp.pos = 2
    /\ rp.held = {1} /\ rp.last_coll_it = 1

====
